---- MODULE Spec2Model ----
(***************************************************************************)
(* Treasury research scraper: the search pipeline of api.py                *)
(* (start_search, execute_search), the source adapters of                  *)
(* scraper_treasury.py, the enrichment of gemini_treasury_analyzer.py and  *)
(* the Firestore persistence of firebase_service.py.                       *)
(*                                                                         *)
(* Python values are modelled as follows.  None and the empty string are   *)
(* both "" where the code only tests truthiness; a calendar date is its    *)
(* year (the code only ever reads date[:4]), 0 when absent; a score is a   *)
(* record [t, v] with t the JSON type of the value and v its rank (tenths  *)
(* for numbers); an exception in flight is its message string, "" when     *)
(* there is none.                                                          *)
(***************************************************************************)
EXTENDS Integers, Sequences, FiniteSets, TLC

(* ------------------------------ bounds -------------------------------- *)

\* longest request.sources list explored
MaxSources == 2
\* most items in one source response
MaxItems == 2
\* longest query, and longest answer of the enhancement service, in characters
MaxQueryLen == 3

(* --------------------------- program constants ------------------------ *)

\* SearchRequest.max_results: Field(100, ge=1, le=1000)
MaxResultsLe == 1000
\* Firestore batch size in save_search_results
BatchLimit == 500
\* the most results arXiv and Crossref are asked for: min(max_results, 100)
ApiLimit == 100

KnownSources == {"arxiv", "google_scholar", "crossref", "researchgate", "scopus"}
\* a request may name any string: "patents" stands for the unknown ones
SourceNames == KnownSources \cup {"patents"}

(* ------------------------------ helpers ------------------------------- *)

Range(s) == {s[i] : i \in DOMAIN s}

Min(a, b) == IF a < b THEN a ELSE b

SeqsUpTo(S, n) == UNION {[1..k -> S] : k \in 0..n}

\* s[:n]
Take(s, n) == IF Len(s) <= n THEN s ELSE SubSeq(s, 1, n)

(* the outcome of a call: a returned value, or an exception in flight *)
Ret(v) == [exc |-> "", val |-> v]
Raise(e) == [exc |-> e, val |-> <<>>]

(* ---------------------- source responses (inputs) --------------------- *)

\* natural identifiers a source may supply for a record ("" = none)
NatIds == {"", "10.1/x"}
\* publication years a record may carry (0 = none)
Years == {2022}

\* one entry / item / publication of a source response.  bad: processing
\* the item raises inside the per-item try block.
RawItems == [nid : NatIds, year : Years, bad : BOOLEAN]

\* what one fetch can meet: a timeout, a connection error, a non-200
\* status, a 200 whose page does not parse, a 200 with items
Responses ==
    {[kind |-> k, items |-> <<>>] : k \in {"timeout", "conn", "status", "unparsable"}}
    \cup {[kind |-> "ok", items |-> its] : its \in SeqsUpTo(RawItems, MaxItems)}

\* years around a requested range, and no year: 2022 is inside the range
\* 2022..2022, 2021 and 2023 are outside it
DatedYears == {0, 2021, 2022, 2023}

\* responses whose items need the sequence number as identifier and carry
\* any of the years
DatedResponses ==
    {[kind |-> k, items |-> <<>>] : k \in {"timeout", "conn", "status", "unparsable"}}
    \cup {[kind |-> "ok", items |-> its] :
              its \in SeqsUpTo([nid : {""}, year : DatedYears, bad : BOOLEAN], MaxItems)}

(* ------------------------- scraper_treasury.py ------------------------ *)

\* the try block of _search_arxiv / _search_crossref before the handlers:
\* session.get raises on timeout and connection error; response.text() /
\* response.json() raise on an undecodable body
FetchBody(resp, parsed) ==
    CASE resp.kind = "timeout" -> Raise("TimeoutError")
      [] resp.kind = "conn" -> Raise("ClientConnectorError")
      [] resp.kind = "status" -> Ret(<<>>)
      [] OTHER -> parsed

\* CatchAll without the except Exception handler: only the timeout is caught
CatchTimeoutOnly(r) == IF r.exc = "TimeoutError" THEN Ret(<<>>) ELSE r

\* except asyncio.TimeoutError: return [] / except Exception: return []
CatchAll(r) == IF r.exc # "" THEN Ret(<<>>) ELSE r

\* ArxivEntries with the try block around the whole loop: the first entry
\* that raises ends the parse
RECURSIVE ArxivEntriesAbort(_, _)
ArxivEntriesAbort(entries, results) ==
    IF entries = <<>> \/ Head(entries).bad THEN results
    ELSE LET entry == Head(entries)
             result == [id |-> IF entry.nid # "" THEN entry.nid
                               ELSE "arxiv_" \o ToString(Len(results)),
                        source |-> "arxiv",
                        date |-> entry.year]
         IN  ArxivEntriesAbort(Tail(entries), Append(results, result))

RECURSIVE ArxivEntries(_, _)
ArxivEntries(entries, results) ==
    IF entries = <<>> THEN results
    ELSE LET entry == Head(entries)
             result == [id |-> IF entry.nid # "" THEN entry.nid
                               ELSE "arxiv_" \o ToString(Len(results)),
                        source |-> "arxiv",
                        date |-> entry.year]
         IN  IF entry.bad THEN ArxivEntries(Tail(entries), results)
             ELSE ArxivEntries(Tail(entries), Append(results, result))

\* ET.fromstring raises ParseError on an unparsable feed, caught here
_parse_arxiv_response(resp) ==
    IF resp.kind = "unparsable" THEN <<>> ELSE ArxivEntries(resp.items, <<>>)

_search_arxiv(max_results, date_from, date_to, resp) ==
    CatchAll(FetchBody(resp, Ret(_parse_arxiv_response(resp))))

RECURSIVE CrossrefItems(_, _)
CrossrefItems(items, results) ==
    IF items = <<>> THEN results
    ELSE LET item == Head(items)
             result == [id |-> IF item.nid # "" THEN item.nid
                               ELSE "crossref_" \o ToString(Len(results)),
                        source |-> "crossref",
                        date |-> item.year]
         IN  IF item.bad THEN CrossrefItems(Tail(items), results)
             ELSE CrossrefItems(Tail(items), Append(results, result))

_parse_crossref_response(resp) == CrossrefItems(resp.items, <<>>)

\* response.json() raises on a body that is not JSON
_search_crossref(max_results, date_from, date_to, resp) ==
    CatchAll(FetchBody(resp,
        IF resp.kind = "unparsable" THEN Raise("ContentTypeError")
        ELSE Ret(_parse_crossref_response(resp))))

\* DateSkip that also skips the years of date_from and date_to themselves
DateSkipInclusive(date, date_from, date_to) ==
    \/ date_from # 0 /\ date # 0 /\ date <= date_from
    \/ date_to # 0 /\ date # 0 /\ date >= date_to

\* the date-range check shared by the three scrape-based adapters:
\* TRUE when the record is skipped (continue)
DateSkip(date, date_from, date_to) ==
    \/ date_from # 0 /\ date # 0 /\ date < date_from
    \/ date_to # 0 /\ date # 0 /\ date > date_to

RECURSIVE ScholarPubs(_, _, _, _, _, _)
ScholarPubs(pubs, results, count, max_results, date_from, date_to) ==
    IF pubs = <<>> \/ count >= max_results THEN results
    ELSE LET pub == Head(pubs)
             result == [id |-> "scholar_" \o
                                 (IF pub.nid # "" THEN pub.nid ELSE ToString(count)),
                        source |-> "google_scholar",
                        date |-> pub.year]
         IN  IF pub.bad \/ DateSkip(pub.year, date_from, date_to)
             THEN ScholarPubs(Tail(pubs), results, count, max_results, date_from, date_to)
             ELSE ScholarPubs(Tail(pubs), Append(results, result), count + 1,
                              max_results, date_from, date_to)

\* scholarly raises on every transport or page failure; the outer handlers
\* (ImportError, Exception) return []
_search_google_scholar(max_results, date_from, date_to, resp) ==
    CatchAll(IF resp.kind # "ok" THEN Raise("ScholarError")
             ELSE Ret(ScholarPubs(resp.items, <<>>, 0, max_results, date_from, date_to)))

RECURSIVE ScrapeItems(_, _, _, _, _, _)
ScrapeItems(items, results, prefix, source, date_from, date_to) ==
    IF items = <<>> THEN results
    ELSE LET item == Head(items)
             result == [id |-> prefix \o ToString(Len(results)),
                        source |-> source,
                        date |-> item.year]
         IN  IF item.bad \/ DateSkip(item.year, date_from, date_to)
             THEN ScrapeItems(Tail(items), results, prefix, source, date_from, date_to)
             ELSE ScrapeItems(Tail(items), Append(results, result), prefix, source,
                              date_from, date_to)

\* the inner handler returns [] on a timeout, the outer one on anything else
_search_researchgate(max_results, date_from, date_to, resp) ==
    CatchAll(FetchBody(resp,
        IF resp.kind = "unparsable" THEN Raise("ParserError")
        ELSE Ret(ScrapeItems(Take(resp.items, max_results), <<>>, "rg_",
                             "researchgate", date_from, date_to))))

_search_scopus(max_results, date_from, date_to, resp) ==
    CatchAll(FetchBody(resp,
        IF resp.kind = "unparsable" THEN Raise("ParserError")
        ELSE Ret(ScrapeItems(Take(resp.items, max_results), <<>>, "scopus_",
                             "scopus", date_from, date_to))))

\* search that rejects a source name it does not know
search_strict(source, max_results, date_from, date_to, resp) ==
    CASE source = "arxiv" -> _search_arxiv(max_results, date_from, date_to, resp)
      [] source = "google_scholar" ->
            _search_google_scholar(max_results, date_from, date_to, resp)
      [] source = "crossref" -> _search_crossref(max_results, date_from, date_to, resp)
      [] source = "researchgate" ->
            _search_researchgate(max_results, date_from, date_to, resp)
      [] source = "scopus" -> _search_scopus(max_results, date_from, date_to, resp)
      [] OTHER -> Raise("ValueError")

\* TreasuryScraper.search: dispatch on the source name, [] for any other
search(source, max_results, date_from, date_to, resp) ==
    CASE source = "arxiv" -> _search_arxiv(max_results, date_from, date_to, resp)
      [] source = "google_scholar" ->
            _search_google_scholar(max_results, date_from, date_to, resp)
      [] source = "crossref" -> _search_crossref(max_results, date_from, date_to, resp)
      [] source = "researchgate" ->
            _search_researchgate(max_results, date_from, date_to, resp)
      [] source = "scopus" -> _search_scopus(max_results, date_from, date_to, resp)
      [] OTHER -> Ret(<<>>)

(* --------------------- gemini_treasury_analyzer.py -------------------- *)

\* a string is the sequence of its characters: a letter and a blank
Chars == {"t", " "}
Queries == SeqsUpTo(Chars, MaxQueryLen)

\* what generate_content can do for enhance_search_query: raise (or give
\* a response without text), or answer a text
EnhancerAnswers ==
    {[kind |-> "error", text |-> <<>>]}
    \cup {[kind |-> "text", text |-> t] : t \in SeqsUpTo(Chars, MaxQueryLen)}
\* generate_content is not called
NoAnswer == [kind |-> "none", text |-> <<>>]

RECURSIVE LStrip(_)
LStrip(s) == IF s # <<>> /\ Head(s) = " " THEN LStrip(Tail(s)) ELSE s

RECURSIVE RStrip(_)
RStrip(s) ==
    IF s # <<>> /\ s[Len(s)] = " " THEN RStrip(SubSeq(s, 1, Len(s) - 1)) ELSE s

\* str.strip()
Strip(s) == RStrip(LStrip(s))

\* TooShort with a quarter in place of the half
TooShortAtQuarter(enhanced, original_query) ==
    4 * Len(enhanced) < Len(original_query)

\* len(enhanced) < len(original_query) * 0.5
TooShort(enhanced, original_query) == 2 * Len(enhanced) < Len(original_query)

\* enhance_search_query: the guard on self.model, the try block, and the
\* except block that returns the original query
enhance_search_query(has_model, original_query, answer) ==
    IF ~has_model THEN Ret(original_query)
    ELSE LET enhanced == Strip(answer.text)
             body == IF answer.kind = "error" THEN Raise("ServiceError")
                     ELSE IF TooShort(enhanced, original_query)
                          THEN Ret(original_query)
                          ELSE Ret(enhanced)
         IN  IF body.exc # "" THEN Ret(original_query) ELSE body

Num(n) == [t |-> "num", v |-> n]
\* JSON null
Null == [t |-> "null", v |-> 0]
\* the key is not in the dictionary
Missing == [t |-> "missing", v |-> 0]

\* relevance_score values the scoring service may put in its JSON: 0.5,
\* 0.9, 1.2 (the response schema asks for a NUMBER and bounds it in its
\* description only), and null in place of a number
ServiceScores == {Num(5), Num(9), Num(12), Null}

\* what one scoring call can meet: a JSON object (with or without the
\* relevance_score key), a JSON value that is no object, or a failure of
\* generate_content / of json.loads
ServiceOutcomes ==
    {[kind |-> "object", score |-> s] : s \in ServiceScores \cup {Missing}}
    \cup {[kind |-> k, score |-> Missing] : k \in {"not_object", "error"}}

\* _analyze_single_result: the service's JSON value, or the fallback
\* dictionary of its except block
_analyze_single_result(outcome) ==
    IF outcome.kind = "error"
    THEN [object |-> TRUE, relevance_score |-> Num(5), topics |-> TRUE,
          error |-> "ServiceError"]
    ELSE [object |-> outcome.kind = "object", relevance_score |-> outcome.score,
          topics |-> outcome.kind = "object", error |-> ""]

\* the body of the for loop of analyze_results on one result: the try
\* block, and the except block when analysis.get raises
AnalyzeOne(result, outcome) ==
    LET analysis == _analyze_single_result(outcome)
    IN  IF analysis.object
        THEN ("ai_analysis" :> analysis) @@
             ("relevance_score" :> (IF analysis.relevance_score = Missing
                                    THEN Num(5) ELSE analysis.relevance_score)) @@
             result
        ELSE ("ai_analysis" :> [object |-> TRUE, relevance_score |-> Missing,
                                topics |-> FALSE, error |-> "AttributeError"]) @@
             ("relevance_score" :> Num(0)) @@
             result

\* Python's < on two sort keys raises TypeError unless both are numbers
Comparable(a, b) == a.t = "num" /\ b.t = "num"

\* list.sort raises when it compares two keys that are not comparable;
\* any comparison sort of two or more keys compares across every split
SortRaises(keys) ==
    \E i, j \in DOMAIN keys : i # j /\ ~Comparable(keys[i], keys[j])

\* InsertDesc that puts the next index before the indices of equal key
InsertDescUnstable(order, keys, i) ==
    LET ahead == {p \in DOMAIN order : keys[order[p]].v > keys[i].v}
        n == Cardinality(ahead)
    IN  SubSeq(order, 1, n) \o <<i>> \o SubSeq(order, n + 1, Len(order))

\* where list.sort(reverse=True) puts the next index: after every index
\* whose key is not smaller (equal keys keep their order)
InsertDesc(order, keys, i) ==
    LET ahead == {p \in DOMAIN order : keys[order[p]].v >= keys[i].v}
        n == Cardinality(ahead)
    IN  SubSeq(order, 1, n) \o <<i>> \o SubSeq(order, n + 1, Len(order))

RECURSIVE SortFrom(_, _, _)
SortFrom(order, keys, i) ==
    IF i > Len(keys) THEN order
    ELSE SortFrom(InsertDesc(order, keys, i), keys, i + 1)

\* analyzed_results.sort(key=..., reverse=True), as the order of indices
SortOrder(keys) == SortFrom(<<>>, keys, 1)

\* analyze_results with a configured model: the loop, then the sort.
\* order[i] is the input position of the i-th returned result.
analyze_results(results, outs) ==
    LET analyzed == [i \in DOMAIN results |-> AnalyzeOne(results[i], outs[i])]
        keys == [i \in DOMAIN results |-> analyzed[i].relevance_score]
        order == SortOrder(keys)
    IN  IF SortRaises(keys) THEN Raise("TypeError")
        ELSE Ret([list |-> [i \in DOMAIN results |-> analyzed[order[i]]],
                  order |-> order])

\* what the loop of analyze_results does for results[i] of n, in order:
\* the scoring call, then time.sleep(0.5) when the try block reaches it
\* (analysis.get has not raised) and the result is not the last
ItemEvents(outcome, i, n) ==
    <<"call">> \o
    (IF _analyze_single_result(outcome).object /\ i < n THEN <<"sleep">> ELSE <<>>)

\* the scoring calls and delays of one run of the loop, from results[i] on
RECURSIVE LoopEvents(_, _)
LoopEvents(outs, i) ==
    IF i > Len(outs) THEN <<>>
    ELSE ItemEvents(outs[i], i, Len(outs)) \o LoopEvents(outs, i + 1)

(* -------------------------- firebase_service.py ----------------------- *)

\* no document under searches/<search_id>
NoDoc == [status |-> "none", results_count |-> 0, error |-> ""]

\* value is None: the keys of a result that can hold None
IsNone(data, key) ==
    \/ key = "date" /\ data[key] = 0
    \/ key = "relevance_score" /\ data[key] = Null

_clean_dict_for_firestore(data) ==
    [key \in {k \in DOMAIN data : ~IsNone(data, k)} |-> data[key]]

\* the loop body of save_search_results on results[i] (i from 1): the
\* result as mutated in place
SaveMutate(result, i, search_id) ==
    ("search_id" :> search_id) @@ ("saved_at" :> "now") @@
    ("id" :> (IF result.id = "" THEN "result_" \o ToString(i - 1) ELSE result.id)) @@
    result

\* commits save_search_results makes for n results: one per full batch,
\* one for the remainder
NumCommits(n) == (n \div BatchLimit) + (IF n % BatchLimit # 0 THEN 1 ELSE 0)

\* the last result the k-th commit holds
BatchEnd(k, n) == Min(k * BatchLimit, n)

\* CommitDue that lets one more write into the batch
CommitDueLate(i) == (i + 1) % (BatchLimit + 1) = 0

\* if (i + 1) % 500 == 0, i the index enumerate gives (from 0)
CommitDue(i) == (i + 1) % BatchLimit = 0

\* if len(results) % 500 != 0
RemainderDue(n) == n % BatchLimit # 0

\* the batches save_search_results commits for n results, each the set of
\* the indices (from 0) it holds; fail_at = k > 0: the k-th commit raises
CommitLog(n, fail_at) ==
    [k \in 1..(IF fail_at = 0 THEN NumCommits(n) ELSE fail_at - 1) |->
        {i \in 0..(n - 1) : BatchEnd(k - 1, n) <= i /\ i < BatchEnd(k, n)}]

\* batch.commit() of the writes batch.set queued for the indices in batch
\* (from 0): of two writes to one document the later stays
CommitDocs(docs, results, batch) ==
    LET ids == {results[i + 1].id : i \in batch}
        last(id) == CHOOSE i \in batch :
                        /\ results[i + 1].id = id
                        /\ \A j \in batch : results[j + 1].id = id => j <= i
    IN  [id \in DOMAIN docs \cup ids |->
            IF id \in ids THEN _clean_dict_for_firestore(results[last(id) + 1])
            ELSE docs[id]]

\* batch.set(doc_ref, clean_result) for results[lo..hi], committed: a
\* later write to the same document id replaces the earlier one
RECURSIVE WriteDocs(_, _, _, _)
WriteDocs(docs, results, lo, hi) ==
    IF lo > hi THEN docs
    ELSE WriteDocs((results[lo].id :> _clean_dict_for_firestore(results[lo])) @@ docs,
                   results, lo + 1, hi)

\* save_search_results on a store that is available; fail_at = k > 0:
\* the k-th batch.commit() raises, 0: none does.  Returns the outcome, the
\* results as mutated and the documents stored.
save_search_results(search_id, results, docs, fail_at) ==
    LET n == Len(results)
        commits == IF fail_at = 0 THEN NumCommits(n) ELSE fail_at - 1
        touched == IF fail_at = 0 THEN n ELSE BatchEnd(fail_at, n)
        mutated == [i \in DOMAIN results |->
                       IF i <= touched THEN SaveMutate(results[i], i, search_id)
                       ELSE results[i]]
    IN  [exc |-> IF fail_at = 0 THEN "" ELSE "StoreError",
         results |-> mutated,
         docs |-> WriteDocs(docs, mutated, 1, BatchEnd(commits, n))]

\* save_search_metadata on a store that is available: doc_ref.set writes
\* the record, and what the store raises is logged and raised again
save_search_metadata(doc, metadata, store_fails) ==
    IF store_fails THEN [exc |-> "StoreError", doc |-> doc]
    ELSE [exc |-> "", doc |-> metadata]

\* update_search_status whose except block raises again, as the one of
\* save_search_metadata does
update_search_status_reraise(doc, status, results_count, error, store_fails) ==
    IF doc = NoDoc \/ store_fails
    THEN [exc |-> "StoreError", doc |-> doc, written |-> FALSE]
    ELSE [exc |-> "",
          doc |-> [status |-> status, results_count |-> results_count,
                   error |-> IF error # "" THEN error ELSE doc.error],
          written |-> TRUE]

\* update_search_status on a store that is available: doc_ref.update
\* raises NotFound on a missing document and whatever the store raises;
\* the except block logs it and returns.  written: the update reached
\* the document.
update_search_status(doc, status, results_count, error, store_fails) ==
    IF doc = NoDoc \/ store_fails
    THEN [exc |-> "", doc |-> doc, written |-> FALSE]
    ELSE [exc |-> "",
          doc |-> [status |-> status, results_count |-> results_count,
                   error |-> IF error # "" THEN error ELSE doc.error],
          written |-> TRUE]

(* ------------------------------- api.py ------------------------------- *)

\* the search identifier start_search draws (uuid4)
SearchId == "s1"

\* years a request may give as date_from / date_to (0 = None)
RequestYears == {0}

\* search_metadata with the status the lifecycle of the specification
\* starts in
search_metadata_pending ==
    [status |-> "pending", results_count |-> 0, error |-> ""]

\* search_metadata of start_search, as far as the status record goes
search_metadata ==
    [status |-> "processing", results_count |-> 0, error |-> ""]

\* the answer to a request that has not returned
NoResponse == [code |-> 0, search_id |-> "", status |-> ""]

\* LogAndContinue without the try block around save_search_metadata
Propagate(r) == r

\* start_search: try: await save_search_metadata(...) except Exception:
\* print a warning and go on
LogAndContinue(r) == [r EXCEPT !.exc = ""]

\* Extend as an assignment: results = source_results
ExtendAssign(results, source_results) == source_results

\* Extend that puts the new results in front: results[:0] = source_results
ExtendFront(results, source_results) == source_results \o results

\* results.extend(source_results)
Extend(results, source_results) == results \o source_results

\* the query of the requests whose query is not rewritten
PlainQuery == <<"t">>

\* requests with use_ai_enhancement off
Requests ==
    [sources : SeqsUpTo(SourceNames, MaxSources),
     max_results : {1, MaxResultsLe},
     date_from : RequestYears,
     date_to : RequestYears,
     query : {PlainQuery},
     use_ai_enhancement : {FALSE}]

\* the answers a scoring service in good order gives, a null score among
\* them, and its failure
PipelineOutcomes ==
    {[kind |-> "object", score |-> s] : s \in {Num(9), Null}}
    \cup {[kind |-> "error", score |-> Missing]}

VARIABLES
    db,                \* firebase_service.db is not None
    model,             \* treasury_analyzer.model is not None
    service,           \* the answers the scoring service can give
    network,           \* the responses the sources can give
    pc,                \* where the search is
    request,           \* the SearchRequest received
    query,             \* execute_search: query (the enhanced query)
    enhancement,       \* what enhance_search_query met, and its outcome
    src_i,             \* execute_search: index of the source to search next
    results,           \* execute_search: results
    returned,          \* what scraper.search returned, per source searched
    last_fetch,        \* the response the last scraper.search met, its outcome
    analyzed_results,  \* execute_search: analyzed_results
    sort_order,        \* input position of each analyzed result
    scored,            \* what the scoring service answered, per result
    timeline,          \* the scoring calls and delays made, in order
    raised,            \* execute_search: the exception caught, as str(e)
    search_doc,        \* Firestore: searches/<search_id>
    result_docs,       \* Firestore: searches/<search_id>/results, by id
    status_log,        \* every status written to searches/<search_id>
    terminal_calls,    \* update_search_status calls made by execute_search
    store_raised,      \* a Firestore call of this search has raised
    metadata_raised,   \* save_search_metadata of this search has raised
    scheduled,         \* search ids background_tasks.add_task was called with
    response,          \* what POST /api/search answered
    save_i,            \* save_search_results: i of the result handled next
    batch,             \* save_search_results: indices batch.set was called for
    commit_log,        \* the batches committed, each the indices it wrote
    running,           \* event loop: the search whose code is executing
    task,              \* event loop: per search, where it is and its locals
    store,             \* event loop: Firestore, by search id
    inputs,            \* event loop: per search, what its calls will meet
    flights,           \* event loop: the source fetches awaiting a response
    status_reply       \* the answer to the last status query

\* no status query answered yet
NoReply == [code |-> 0, detail |-> "", body |-> NoDoc]

\* one search followed through the pipeline
pipevars == <<db, model, service, network, pc, request, query, enhancement,
              src_i, results, returned, last_fetch, analyzed_results,
              sort_order, scored, timeline, raised, search_doc, result_docs,
              status_log, terminal_calls, store_raised, metadata_raised,
              scheduled, response, save_i, batch, commit_log>>

\* several searches on the event loop of the process
loopvars == <<running, task, store, inputs, flights, status_reply>>

vars == <<pipevars, loopvars>>

\* no search on the event loop
NoLoop ==
    /\ running = ""
    /\ task = <<>>
    /\ store = <<>>
    /\ inputs = <<>>
    /\ flights = {}
    /\ status_reply = NoReply

NoFetch == [source |-> "", kind |-> "", items |-> <<>>, exc |-> ""]

NoEnhancement == [kind |-> "none", text |-> <<>>, exc |-> ""]

InitSearch ==
    /\ pc = "idle"
    /\ query = <<>>
    /\ enhancement = NoEnhancement
    /\ src_i = 1
    /\ results = <<>>
    /\ returned = <<>>
    /\ last_fetch = NoFetch
    /\ analyzed_results = <<>>
    /\ sort_order = <<>>
    /\ scored = <<>>
    /\ timeline = <<>>
    /\ raised = ""
    /\ search_doc = NoDoc
    /\ result_docs = <<>>
    /\ status_log = <<>>
    /\ terminal_calls = <<>>
    /\ store_raised = FALSE
    /\ metadata_raised = FALSE
    /\ scheduled = <<>>
    /\ response = NoResponse
    /\ save_i = 0
    /\ batch = {}
    /\ commit_log = <<>>

\* the service as constructed (with or without Firebase, with or without
\* a Gemini key) and one request received
Init ==
    /\ db \in BOOLEAN
    /\ model \in BOOLEAN
    /\ service = PipelineOutcomes
    /\ network = Responses
    /\ request \in Requests
    /\ InitSearch
    /\ NoLoop

\* POST /api/search: save_search_metadata (a failure is logged), then
\* background_tasks.add_task(execute_search, ...)
start_search ==
    /\ pc = "idle"
    /\ \E answer \in (IF request.use_ai_enhancement /\ model
                     THEN EnhancerAnswers ELSE {NoAnswer}) :
        LET r == IF request.use_ai_enhancement
                 THEN enhance_search_query(model, request.query, answer)
                 ELSE Ret(request.query)
        IN  /\ query' = IF r.exc # "" THEN request.query ELSE r.val
            /\ enhancement' = [kind |-> answer.kind, text |-> answer.text,
                               exc |-> r.exc]
    /\ \E store_fails \in (IF db THEN BOOLEAN ELSE {FALSE}) :
        LET call == IF db
                    THEN save_search_metadata(search_doc, search_metadata,
                                              store_fails)
                    ELSE [exc |-> "", doc |-> search_doc]
            saved == LogAndContinue(call)
        IN  /\ search_doc' = call.doc
            /\ status_log' = IF call.doc # search_doc
                             THEN Append(status_log, call.doc.status)
                             ELSE status_log
            /\ metadata_raised' = (call.exc # "")
            /\ store_raised' = (call.exc # "")
            /\ IF saved.exc # ""
               THEN \* except Exception as e: raise HTTPException(500)
                    /\ response' = [code |-> 500, search_id |-> "",
                                    status |-> ""]
                    /\ pc' = "rejected"
                    /\ UNCHANGED scheduled
               ELSE /\ scheduled' = Append(scheduled, SearchId)
                    /\ response' = [code |-> 200, search_id |-> SearchId,
                                    status |-> "processing"]
                    /\ pc' = IF request.sources = <<>> THEN "analyze"
                             ELSE "search"
    /\ UNCHANGED <<loopvars, db, model, service, network, timeline, save_i,
                   batch, commit_log, request, src_i, results, returned,
                   last_fetch, analyzed_results, sort_order, scored, raised,
                   result_docs, terminal_calls>>

\* execute_search: one turn of the loop over request.sources
search_source ==
    /\ pc = "search"
    /\ \E resp \in network :
        LET source == request.sources[src_i]
            r == search(source, request.max_results, request.date_from,
                        request.date_to, resp)
        IN  /\ last_fetch' = [source |-> source, kind |-> resp.kind,
                              items |-> resp.items, exc |-> r.exc]
            /\ IF r.exc # ""
               THEN /\ raised' = r.exc
                    /\ pc' = "except"
                    /\ UNCHANGED <<results, returned, src_i>>
               ELSE /\ results' = Extend(results, r.val)
                    /\ returned' = Append(returned, r.val)
                    /\ src_i' = src_i + 1
                    /\ pc' = IF src_i = Len(request.sources) THEN "analyze"
                             ELSE "search"
                    /\ UNCHANGED raised
    /\ UNCHANGED <<loopvars, db, model, service, network, metadata_raised,
                   scheduled, response, timeline, save_i, batch, commit_log,
                   request, query, enhancement, analyzed_results, sort_order,
                   scored, search_doc, result_docs, status_log,
                   terminal_calls, store_raised>>

\* analyze without the guard on self.model
analyze_unguarded ==
    /\ pc = "analyze"
    /\ \E outs \in [DOMAIN results -> service] :
          LET r == analyze_results(results, outs)
          IN  /\ scored' = outs
              /\ timeline' = LoopEvents(outs, 1)
              /\ IF r.exc # ""
                 THEN /\ raised' = r.exc
                      /\ pc' = "except"
                      /\ UNCHANGED <<analyzed_results, sort_order>>
                 ELSE /\ analyzed_results' = r.val.list
                      /\ sort_order' = r.val.order
                      /\ pc' = "save"
                      /\ UNCHANGED raised
    /\ last_fetch' = NoFetch
    /\ UNCHANGED <<loopvars, db, model, service, network, metadata_raised,
                   scheduled, response, save_i, batch, commit_log, request,
                   query, enhancement, src_i, results, returned, search_doc,
                   result_docs, status_log, terminal_calls, store_raised>>

\* execute_search: analyzed_results = await analyze_results(results)
analyze ==
    /\ pc = "analyze"
    /\ IF ~model
       THEN /\ analyzed_results' = results
            /\ pc' = "save"
            /\ UNCHANGED <<sort_order, scored, timeline, raised>>
       ELSE \E outs \in [DOMAIN results -> service] :
                LET r == analyze_results(results, outs)
                IN  /\ scored' = outs
                    /\ timeline' = LoopEvents(outs, 1)
                    /\ IF r.exc # ""
                       THEN /\ raised' = r.exc
                            /\ pc' = "except"
                            /\ UNCHANGED <<analyzed_results, sort_order>>
                       ELSE /\ analyzed_results' = r.val.list
                            /\ sort_order' = r.val.order
                            /\ pc' = "save"
                            /\ UNCHANGED raised
    /\ last_fetch' = NoFetch
    /\ UNCHANGED <<loopvars, db, model, service, network, metadata_raised,
                   scheduled, response, save_i, batch, commit_log, request,
                   query, enhancement, src_i, results, returned, search_doc,
                   result_docs, status_log, terminal_calls, store_raised>>

\* execute_search: await firebase_service.save_search_results(...)
save_results ==
    /\ pc = "save"
    /\ IF ~db \/ analyzed_results = <<>>
       THEN /\ pc' = "update"
            /\ UNCHANGED <<analyzed_results, result_docs, raised, store_raised,
                           commit_log>>
       ELSE \E fail_at \in 0..NumCommits(Len(analyzed_results)) :
                LET r == save_search_results(SearchId, analyzed_results,
                                             result_docs, fail_at)
                IN  /\ analyzed_results' = r.results
                    /\ result_docs' = r.docs
                    /\ commit_log' = CommitLog(Len(analyzed_results), fail_at)
                    /\ raised' = r.exc
                    /\ store_raised' = (store_raised \/ r.exc # "")
                    /\ pc' = IF r.exc # "" THEN "except" ELSE "update"
    /\ UNCHANGED <<loopvars, db, model, service, network, metadata_raised,
                   scheduled, response, timeline, save_i, batch, request,
                   query, enhancement, src_i, results, returned, last_fetch,
                   sort_order, scored, search_doc, status_log,
                   terminal_calls>>

\* StatusUpdate that passes no error string on
StatusUpdateNoError(status, results_count, error, store_fails) ==
    IF ~db THEN [exc |-> "", doc |-> search_doc, written |-> FALSE]
    ELSE update_search_status(search_doc, status, results_count, "", store_fails)

\* update_search_status as execute_search calls it: nothing happens
\* without a store
StatusUpdate(status, results_count, error, store_fails) ==
    IF ~db THEN [exc |-> "", doc |-> search_doc, written |-> FALSE]
    ELSE update_search_status(search_doc, status, results_count, error, store_fails)

\* execute_search: update_search_status(search_id, "completed", len(...)),
\* the last statement of the try block
update_completed ==
    /\ pc = "update"
    /\ \E store_fails \in BOOLEAN :
        LET r == StatusUpdate("completed", Len(analyzed_results), "", store_fails)
        IN  /\ terminal_calls' = Append(terminal_calls, "completed")
            /\ search_doc' = r.doc
            /\ status_log' = IF r.written THEN Append(status_log, "completed")
                             ELSE status_log
            /\ store_raised' = (store_raised \/ (db /\ ~r.written))
            /\ raised' = r.exc
            /\ pc' = IF r.exc # "" THEN "except" ELSE "done"
    /\ UNCHANGED <<loopvars, db, model, service, network, metadata_raised,
                   scheduled, response, timeline, save_i, batch, commit_log,
                   request, query, enhancement, src_i, results, returned,
                   last_fetch, analyzed_results, sort_order, scored,
                   result_docs>>

\* execute_search: except Exception as e:
\*     update_search_status(search_id, "failed", 0, str(e))
update_failed ==
    /\ pc = "except"
    /\ \E store_fails \in BOOLEAN :
        LET r == StatusUpdate("failed", 0, raised, store_fails)
        IN  /\ terminal_calls' = Append(terminal_calls, "failed")
            /\ search_doc' = r.doc
            /\ status_log' = IF r.written THEN Append(status_log, "failed")
                             ELSE status_log
            /\ store_raised' = (store_raised \/ (db /\ ~r.written))
            /\ pc' = "done"
    /\ UNCHANGED <<loopvars, db, model, service, network, metadata_raised,
                   scheduled, response, timeline, save_i, batch, commit_log,
                   request, query, enhancement, src_i, results, returned,
                   last_fetch, analyzed_results, sort_order, scored, raised,
                   result_docs>>

Next ==
    \/ start_search
    \/ search_source
    \/ analyze
    \/ save_results
    \/ update_completed
    \/ update_failed

Spec == Init /\ [][Next]_vars

\* enrichment on its own: one request for the two structured-API sources,
\* every answer of the scoring service
InitAnalyze ==
    /\ db = FALSE
    /\ model = TRUE
    /\ service = ServiceOutcomes
    /\ network = Responses
    /\ request \in {r \in Requests : /\ r.sources = <<"arxiv", "crossref">>
                                     /\ r.max_results = MaxResultsLe}
    /\ InitSearch
    /\ NoLoop

SpecAnalyze == InitAnalyze /\ [][Next]_vars

\* query enhancement on its own: every query, with and without
\* use_ai_enhancement, in a request for one source
InitEnhance ==
    /\ db \in BOOLEAN
    /\ model \in BOOLEAN
    /\ service = PipelineOutcomes
    /\ network = Responses
    /\ request \in [sources : {<<"arxiv">>},
                    max_results : {1},
                    date_from : RequestYears,
                    date_to : RequestYears,
                    query : Queries,
                    use_ai_enhancement : BOOLEAN]
    /\ InitSearch
    /\ NoLoop

SpecEnhance == InitEnhance /\ [][Next]_vars

\* years a request may give when it gives a date range (0 = None)
DatedRequestYears == {0, 2022}

\* the date filter on its own: one request for one of the five sources,
\* with and without date_from and date_to, and records of every year
InitDates ==
    /\ db = FALSE
    /\ model = TRUE
    /\ service = PipelineOutcomes
    /\ network = DatedResponses
    /\ request \in [sources : {<<s>> : s \in KnownSources},
                    max_results : {MaxResultsLe},
                    date_from : DatedRequestYears,
                    date_to : DatedRequestYears,
                    query : {PlainQuery},
                    use_ai_enhancement : {FALSE}]
    /\ InitSearch
    /\ NoLoop

SpecDates == InitDates /\ [][Next]_vars

(* save_search_results one iteration of its loop at a time, for lists   *)
(* that are longer than one batch                                         *)

\* the three early returns of save_search_results, else into the loop
save_enter ==
    /\ pc = "save"
    /\ pc' = IF ~db \/ analyzed_results = <<>> THEN "update" ELSE "save_loop"
    /\ save_i' = 0
    /\ batch' = {}
    /\ UNCHANGED <<loopvars, db, model, service, network, metadata_raised,
                   scheduled, response, timeline, commit_log, request, query,
                   enhancement, src_i, results, returned, last_fetch,
                   analyzed_results, sort_order, scored, raised, search_doc,
                   result_docs, status_log, terminal_calls, store_raised>>

\* one turn of `for i, result in enumerate(results)`: the result is
\* stamped in place and queued, and the batch is committed when due
save_item ==
    /\ pc = "save_loop"
    /\ save_i < Len(analyzed_results)
    /\ \E commit_raises \in BOOLEAN :
        LET i == save_i
            stamped == [analyzed_results EXCEPT
                           ![i + 1] = SaveMutate(@, i + 1, SearchId)]
            queued == batch \cup {i}
        IN  /\ analyzed_results' = stamped
            /\ IF ~CommitDue(i)
               THEN /\ ~commit_raises
                    /\ batch' = queued
                    /\ save_i' = i + 1
                    /\ UNCHANGED <<pc, raised, store_raised, result_docs,
                                   commit_log>>
               ELSE IF commit_raises
               THEN /\ batch' = queued
                    /\ raised' = "StoreError"
                    /\ store_raised' = TRUE
                    /\ pc' = "except"
                    /\ UNCHANGED <<save_i, result_docs, commit_log>>
               ELSE /\ result_docs' = CommitDocs(result_docs, stamped, queued)
                    /\ commit_log' = Append(commit_log, queued)
                    /\ batch' = {}
                    /\ save_i' = i + 1
                    /\ UNCHANGED <<pc, raised, store_raised>>
    /\ UNCHANGED <<loopvars, db, model, service, network, metadata_raised,
                   scheduled, response, timeline, request, query, enhancement,
                   src_i, results, returned, last_fetch, sort_order, scored,
                   search_doc, status_log, terminal_calls>>

\* after the loop: the commit of what is left in the batch, and return
save_remainder ==
    /\ pc = "save_loop"
    /\ save_i = Len(analyzed_results)
    /\ \E commit_raises \in BOOLEAN :
        IF ~RemainderDue(Len(analyzed_results))
        THEN /\ ~commit_raises
             /\ pc' = "update"
             /\ UNCHANGED <<raised, store_raised, result_docs, commit_log>>
        ELSE IF commit_raises
        THEN /\ raised' = "StoreError"
             /\ store_raised' = TRUE
             /\ pc' = "except"
             /\ UNCHANGED <<result_docs, commit_log>>
        ELSE /\ result_docs' = CommitDocs(result_docs, analyzed_results, batch)
             /\ commit_log' = Append(commit_log, batch)
             /\ pc' = "update"
             /\ UNCHANGED <<raised, store_raised>>
    /\ UNCHANGED <<loopvars, db, model, service, network, metadata_raised,
                   scheduled, response, timeline, save_i, batch, request,
                   query, enhancement, src_i, results, returned, last_fetch,
                   analyzed_results, sort_order, scored, search_doc,
                   status_log, terminal_calls>>

NextBatch ==
    \/ save_enter
    \/ save_item
    \/ save_remainder
    \/ update_completed
    \/ update_failed

\* lengths of the list to save, around one and two batches of 500
BatchLengths == {1, 499, 500, 501, 1000, 1001}

\* what a scrape-based adapter returns for a page of k records
ScrapedList(prefix, source, k) ==
    [i \in 1..k |-> [id |-> prefix \o ToString(i - 1), source |-> source,
                     date |-> 2022]]

\* execute_search at its call of save_search_results, no model
\* configured: ResearchGate returned up to max_results records and
\* Scopus the rest of the list
InitBatch ==
    /\ db \in BOOLEAN
    /\ model = FALSE
    /\ service = PipelineOutcomes
    /\ network = Responses
    /\ request = [sources |-> <<"researchgate", "scopus">>,
                  max_results |-> MaxResultsLe,
                  date_from |-> 0,
                  date_to |-> 0,
                  query |-> PlainQuery,
                  use_ai_enhancement |-> FALSE]
    /\ query = PlainQuery
    /\ enhancement = NoEnhancement
    /\ \E n \in BatchLengths :
        LET rg == ScrapedList("rg_", "researchgate", Min(n, MaxResultsLe))
            scopus == ScrapedList("scopus_", "scopus", n - Min(n, MaxResultsLe))
        IN  /\ returned = <<rg, scopus>>
            /\ results = rg \o scopus
            /\ analyzed_results = rg \o scopus
    /\ src_i = 3
    /\ last_fetch = NoFetch
    /\ sort_order = <<>>
    /\ scored = <<>>
    /\ timeline = <<>>
    /\ raised = ""
    /\ pc = "save"
    /\ search_doc = IF db THEN search_metadata ELSE NoDoc
    /\ status_log = IF db THEN <<search_metadata.status>> ELSE <<>>
    /\ result_docs = <<>>
    /\ terminal_calls = <<>>
    /\ store_raised = FALSE
    /\ metadata_raised = FALSE
    /\ scheduled = <<SearchId>>
    /\ response = [code |-> 200, search_id |-> SearchId,
                   status |-> search_metadata.status]
    /\ save_i = 0
    /\ batch = {}
    /\ commit_log = <<>>
    /\ NoLoop

SpecBatch == InitBatch /\ [][NextBatch]_vars

\* one search at a service with a store, followed to its end: the event
\* loop runs the handler and then the task it scheduled, each step of
\* which returns, so a step that is enabled is eventually taken
InitLive ==
    /\ db = TRUE
    /\ model \in BOOLEAN
    /\ service = PipelineOutcomes
    /\ network = Responses
    /\ request \in [sources : {<<s>> : s \in SourceNames},
                    max_results : {MaxResultsLe},
                    date_from : RequestYears,
                    date_to : RequestYears,
                    query : {PlainQuery},
                    use_ai_enhancement : {FALSE}]
    /\ InitSearch
    /\ NoLoop

SpecLive == InitLive /\ [][Next]_vars /\ WF_vars(Next)

\* FirebaseService.get_search_status: None (NoDoc) without a store, when
\* the document does not exist and when the read raises
get_search_status(has_db, doc, store_fails) ==
    IF ~has_db THEN NoDoc
    ELSE IF store_fails THEN NoDoc
    ELSE doc

\* the try block of the route: raise HTTPException(404) when the status
\* is None, else return it
StatusOrNotFound(status) ==
    IF status = NoDoc
    THEN [exc |-> "HTTPException", code |-> 404, detail |-> "Search not found",
          body |-> NoDoc]
    ELSE [exc |-> "", code |-> 200, detail |-> "", body |-> status]

\* except Exception as e: raise HTTPException(status_code=500,
\* detail=str(e)); HTTPException is an Exception
ExceptToServerError(r) ==
    IF r.exc # ""
    THEN [code |-> 500, detail |-> ToString(r.code) \o ": " \o r.detail,
          body |-> NoDoc]
    ELSE [code |-> r.code, detail |-> r.detail, body |-> r.body]

\* GET /api/search/{search_id}/status for the id of the search, at any
\* moment of its life
get_search_status_route ==
    /\ \E store_fails \in BOOLEAN :
        status_reply' =
            ExceptToServerError(
                StatusOrNotFound(get_search_status(db, search_doc, store_fails)))
    /\ UNCHANGED <<pipevars, running, task, store, inputs, flights>>

NextQuery ==
    \/ Next
    \/ get_search_status_route

\* one search at a service with a store, and status queries for its id
SpecQuery == InitLive /\ [][NextQuery]_vars

(* ------------------- searches on one event loop ---------------------- *)
(* The process runs one asyncio event loop.  A request handler or a       *)
(* background task holds it from the moment it is resumed until it awaits  *)
(* something that suspends (the aiohttp fetch of an adapter) or returns;   *)
(* a call that is not awaited on a suspending primitive                    *)
(* (model.generate_content, time.sleep, the Firestore client) keeps it.    *)

\* the search ids of two requests
Tasks == {"s1", "s2"}

\* the responses a fetch of these searches can meet
LoopResponses ==
    {[kind |-> "timeout", items |-> <<>>],
     [kind |-> "ok", items |-> <<[nid |-> "", year |-> 2022, bad |-> FALSE]>>]}

\* the answers the scoring service gives these searches
LoopOutcomes == {[kind |-> "object", score |-> s] : s \in {Num(9), Null}}

\* what the calls of one search will meet: the response per source, the
\* scorer's answer per result, whether the commit of its results raises
LoopInputs ==
    [sources : {<<"arxiv", "crossref">>},
     responses : [1..2 -> LoopResponses],
     outs : [1..2 -> LoopOutcomes],
     save_fails : BOOLEAN]

NewTask ==
    [pc |-> "new", src_i |-> 1, results |-> <<>>, analyzed |-> <<>>,
     score_i |-> 0, raised |-> "", overlapped |-> FALSE]

\* DocKey that files every search under the id of the first
DocKeyShared(search_id) == "s1"

\* self.db.collection("searches").document(search_id)
DocKey(search_id) == search_id

\* POST /api/search arrives and its handler starts: enhance_search_query
\* calls generate_content when a model is configured
request_received(s) ==
    /\ running = ""
    /\ task[s].pc = "new"
    /\ running' = s
    /\ task' = [task EXCEPT ![s].pc = IF model THEN "enhancing" ELSE "handler"]
    /\ UNCHANGED <<pipevars, status_reply, store, inputs, flights>>

\* generate_content of enhance_search_query returns
enhancer_returns(s) ==
    /\ running = s
    /\ task[s].pc = "enhancing"
    /\ task' = [task EXCEPT ![s].pc = "handler"]
    /\ UNCHANGED <<pipevars, status_reply, running, store, inputs,
                   flights>>

\* start_search: save_search_metadata, add_task, return
handler_returns(s) ==
    /\ running = s
    /\ task[s].pc = "handler"
    /\ store' = IF db
                THEN [store EXCEPT !.doc[DocKey(s)] =
                         save_search_metadata(@, search_metadata, FALSE).doc]
                ELSE store
    /\ task' = [task EXCEPT ![s].pc = "queued"]
    /\ running' = ""
    /\ UNCHANGED <<pipevars, status_reply, inputs, flights>>

\* the event loop starts the background task execute_search
task_start(s) ==
    /\ running = ""
    /\ task[s].pc = "queued"
    /\ running' = s
    /\ task' = [task EXCEPT ![s].pc = "loop"]
    /\ UNCHANGED <<pipevars, status_reply, store, inputs, flights>>

\* for source in request.sources: await scraper.search(...) as far as
\* session.get, where the task is suspended; overlapped records that the
\* fetch of another search was in flight at that moment
fetch_start(s) ==
    /\ running = s
    /\ task[s].pc = "loop"
    /\ task[s].src_i <= Len(inputs[s].sources)
    /\ flights' = flights \cup {<<s, task[s].src_i>>}
    /\ task' = [task EXCEPT ![s].pc = "fetching",
                            ![s].overlapped = @ \/ flights # {}]
    /\ running' = ""
    /\ UNCHANGED <<pipevars, status_reply, store, inputs>>

\* the response is in and the task is resumed: the adapter returns and
\* results.extend(source_results)
fetch_return(s) ==
    /\ running = ""
    /\ task[s].pc = "fetching"
    /\ LET k == task[s].src_i
           r == search(inputs[s].sources[k], MaxResultsLe, 0, 0,
                       inputs[s].responses[k])
       IN  /\ flights' = flights \ {<<s, k>>}
           /\ task' = [task EXCEPT ![s].pc = "loop",
                                   ![s].src_i = k + 1,
                                   ![s].results = Extend(@, r.val)]
    /\ running' = s
    /\ UNCHANGED <<pipevars, status_reply, store, inputs>>

\* the scorer's answers for the results of the search
TaskOuts(s) == [i \in DOMAIN task[s].results |-> inputs[s].outs[i]]

\* analyze_results is entered: the guard on self.model, then the first
\* scoring call
analyze_begin(s) ==
    /\ running = s
    /\ task[s].pc = "loop"
    /\ task[s].src_i > Len(inputs[s].sources)
    /\ task' = IF ~model \/ task[s].results = <<>>
               THEN [task EXCEPT ![s].pc = "save",
                                 ![s].analyzed = task[s].results]
               ELSE [task EXCEPT ![s].pc = "scoring", ![s].score_i = 1]
    /\ UNCHANGED <<pipevars, status_reply, running, store, inputs,
                   flights>>

\* generate_content of _analyze_single_result returns: time.sleep(0.5)
\* when the loop calls it, else the next call, and after the last result
\* the sort
score_returns(s) ==
    /\ running = s
    /\ task[s].pc = "scoring"
    /\ LET i == task[s].score_i
           n == Len(task[s].results)
           r == analyze_results(task[s].results, TaskOuts(s))
       IN  task' =
               IF i < n
               THEN IF "sleep" \in Range(ItemEvents(TaskOuts(s)[i], i, n))
                    THEN [task EXCEPT ![s].pc = "sleeping"]
                    ELSE [task EXCEPT ![s].score_i = i + 1]
               ELSE IF r.exc # ""
                    THEN [task EXCEPT ![s].pc = "except", ![s].raised = r.exc]
                    ELSE [task EXCEPT ![s].pc = "save",
                                      ![s].analyzed = r.val.list]
    /\ UNCHANGED <<pipevars, status_reply, running, store, inputs,
                   flights>>

\* time.sleep(0.5) returns
sleep_returns(s) ==
    /\ running = s
    /\ task[s].pc = "sleeping"
    /\ task' = [task EXCEPT ![s].pc = "scoring", ![s].score_i = @ + 1]
    /\ UNCHANGED <<pipevars, status_reply, running, store, inputs,
                   flights>>

\* what the rest of execute_search leaves in the store under key for
\* analyzed results (pc = "save") or a raised exception (pc = "except")
Recorded(key, search_id, t, save_fails, doc, docs) ==
    LET saving == t.pc = "save" /\ db /\ t.analyzed # <<>>
        saved == save_search_results(search_id, t.analyzed, docs,
                                     IF save_fails THEN 1 ELSE 0)
        exc == IF t.pc = "except" THEN t.raised
               ELSE IF saving THEN saved.exc ELSE ""
        update == IF exc # ""
                  THEN update_search_status(doc, "failed", 0, exc, FALSE)
                  ELSE update_search_status(doc, "completed", Len(t.analyzed),
                                            "", FALSE)
    IN  [doc |-> IF db THEN update.doc ELSE doc,
         docs |-> IF saving THEN saved.docs ELSE docs,
         raised |-> exc]

\* save_search_results and update_search_status, or the except block of
\* execute_search: Firestore's client is synchronous, the task ends
\* without being suspended again
save_and_report(s) ==
    /\ running = s
    /\ task[s].pc \in {"save", "except"}
    /\ LET r == Recorded(DocKey(s), s, task[s], inputs[s].save_fails,
                         store.doc[DocKey(s)], store.docs[DocKey(s)])
       IN  /\ store' = [store EXCEPT !.doc[DocKey(s)] = r.doc,
                                     !.docs[DocKey(s)] = r.docs]
           /\ task' = [task EXCEPT ![s].pc = "done", ![s].raised = r.raised]
    /\ running' = ""
    /\ UNCHANGED <<pipevars, status_reply, inputs, flights>>

NextLoop ==
    \E s \in Tasks :
        \/ request_received(s)
        \/ enhancer_returns(s)
        \/ handler_returns(s)
        \/ task_start(s)
        \/ fetch_start(s)
        \/ fetch_return(s)
        \/ analyze_begin(s)
        \/ score_returns(s)
        \/ sleep_returns(s)
        \/ save_and_report(s)

\* two requests arrive at a service with or without store and model
InitLoop ==
    /\ db \in BOOLEAN
    /\ model \in BOOLEAN
    /\ service = LoopOutcomes
    /\ network = LoopResponses
    /\ request = [sources |-> <<"arxiv", "crossref">>,
                  max_results |-> MaxResultsLe,
                  date_from |-> 0,
                  date_to |-> 0,
                  query |-> PlainQuery,
                  use_ai_enhancement |-> TRUE]
    /\ InitSearch
    /\ running = ""
    /\ task = [s \in Tasks |-> NewTask]
    /\ store = [doc |-> [s \in Tasks |-> NoDoc], docs |-> [s \in Tasks |-> <<>>]]
    /\ inputs \in [Tasks -> LoopInputs]
    /\ flights = {}
    /\ status_reply = NoReply

SpecLoop == InitLoop /\ [][NextLoop]_vars

(* ------------------------------- claims ------------------------------- *)

FailureKinds == {"timeout", "conn", "status", "unparsable"}

Count(seq, x) == Cardinality({i \in DOMAIN seq : seq[i] = x})

RECURSIVE CountAll(_, _)
CountAll(lists, x) ==
    IF lists = <<>> THEN 0 ELSE Count(Head(lists), x) + CountAll(Tail(lists), x)

\* the loop over request.sources is over
Merged == pc \in {"analyze", "save", "update", "done"} \/ (pc = "except" /\ last_fetch = NoFetch)

\* C1: a source whose fetch fails (timeout, non-200 status, connection
\* error, unparsable page) does not end the loop over the sources, and the
\* merged list holds every record the adapters returned, as many times as
\* they returned it.
C1_FaultIsolation ==
    /\ last_fetch.kind \in FailureKinds => pc \in {"search", "analyze"}
    /\ Len(returned) = src_i - 1
    /\ Merged => Len(returned) = Len(request.sources)
    /\ \A k \in DOMAIN returned : \A i \in DOMAIN returned[k] :
          Count(results, returned[k][i]) >= CountAll(returned, returned[k][i])

\* the second of two sources timed out; the two records of the first are
\* in the merged list
C1_Witness ==
    /\ pc = "analyze"
    /\ last_fetch.kind = "timeout"
    /\ Len(returned) = 2
    /\ Len(returned[1]) = 2
    /\ results = returned[1]

\* C2: scraper.search never raises, for the five sources and for any other
\* name, and returns the empty list on a timeout, a non-200 status, a
\* connection error and an unparsable page.
C2_SearchNeverRaises ==
    last_fetch # NoFetch =>
        /\ last_fetch.exc = ""
        /\ returned # <<>>
        /\ last_fetch.kind \in FailureKinds => returned[Len(returned)] = <<>>

\* Scopus met a connection error and the search went on
C2_Witness ==
    /\ last_fetch.source = "scopus"
    /\ last_fetch.kind = "conn"
    /\ last_fetch.exc = ""
    /\ returned[Len(returned)] = <<>>

\* analyze_results has returned (with a configured model)
Enriched ==
    /\ model
    /\ \/ pc \in {"save", "update"}
       \/ pc \in {"except", "done"} /\ raised # "TypeError"

\* the position in analyzed_results of the result that was results[i]
PlaceOf(i) == CHOOSE p \in DOMAIN sort_order : sort_order[p] = i

\* C3: with a configured scoring service, the list analyze_results returns
\* is the input list reordered, non-increasing in relevance_score, and two
\* results of equal score are in the order they had in the input.
C3_SortedStable ==
    Enriched =>
        /\ Len(analyzed_results) = Len(results)
        /\ Len(sort_order) = Len(results)
        /\ Range(sort_order) = DOMAIN results
        /\ \A p \in DOMAIN analyzed_results :
              /\ analyzed_results[p].id = results[sort_order[p]].id
              /\ analyzed_results[p].source = results[sort_order[p]].source
        /\ \A p, q \in DOMAIN analyzed_results :
              p < q =>
                  /\ analyzed_results[p].relevance_score.t = "num"
                  /\ analyzed_results[q].relevance_score.t = "num"
                  /\ analyzed_results[p].relevance_score.v
                        >= analyzed_results[q].relevance_score.v
                  /\ analyzed_results[p].relevance_score
                        = analyzed_results[q].relevance_score
                     => sort_order[p] < sort_order[q]

\* four results: the first and the third scored 0.5, the second 0.9, the
\* fourth 0.0; the returned order is second, first, third, fourth
C3_Witness ==
    /\ Enriched
    /\ Len(results) = 4
    /\ sort_order = <<2, 1, 3, 4>>
    /\ analyzed_results[2].relevance_score = Num(5)
    /\ analyzed_results[3].relevance_score = Num(5)
    /\ analyzed_results[4].relevance_score = Num(0)

\* C4 (as claimed): a result whose scoring call failed ends with
\* relevance_score 0.0 and an ai_analysis that holds an error and no
\* topics or insights.
C4_FailedItemScoredZero ==
    Enriched =>
        \A i \in DOMAIN scored :
            scored[i].kind = "error" =>
                LET result == analyzed_results[PlaceOf(i)]
                IN  /\ result.relevance_score = Num(0)
                    /\ result.ai_analysis.error # ""
                    /\ ~result.ai_analysis.topics

\* C5 (as claimed): whatever the scoring service answers, a null score
\* included, analyze_results returns, and returns the input results, each
\* once.
C5_NeverAborts ==
    /\ raised # "TypeError"
    /\ Enriched => /\ Len(sort_order) = Len(results)
                   /\ Range(sort_order) = DOMAIN results

Terminal == {"completed", "failed"}

\* C6: the status of the record never moves backwards (no record, then
\* processing, then completed or failed), a completed or failed record
\* never changes again, and one run of execute_search makes exactly one
\* terminal update_search_status call.
C6_StatusMonotone ==
    /\ [](Len(terminal_calls) <= 1)
    /\ [](pc = "done" <=> Len(terminal_calls) = 1)
    /\ [][/\ search_doc.status \in Terminal => search_doc' = search_doc
          /\ search_doc.status # "none" => search_doc'.status # "none"
          /\ search_doc'.status = "processing" => search_doc.status \in {"none", "processing"}]_vars

\* the run is over and the record went from processing to failed
C6_Witness ==
    /\ pc = "done"
    /\ status_log = <<"processing", "failed">>
    /\ terminal_calls = <<"failed">>

C8_CompletedUnlessStoreFails ==
    pc = "done" /\ db /\ ~store_raised =>
        /\ search_doc.status = "completed"
        /\ search_doc.results_count = Len(analyzed_results)

\* C9: failed is written only from the except block of execute_search,
\* with the string of the exception caught and result count 0.
C9_FailedCarriesError ==
    /\ "failed" \in Range(terminal_calls) \cup Range(status_log) =>
          pc = "done" /\ raised # ""
    /\ search_doc.status = "failed" =>
          /\ search_doc.error = raised
          /\ search_doc.results_count = 0
    /\ search_doc.status # "failed" => search_doc.error = ""

\* save_search_results raised after results were found, and the record is
\* failed
C9_Witness ==
    /\ search_doc.status = "failed"
    /\ raised = "StoreError"
    /\ Len(analyzed_results) = 2

\* C10 (as claimed): no result of a search has an empty id and no two
\* results of a search have the same id.
C10_IdsUnique ==
    \A i, j \in DOMAIN results :
        /\ results[i].id # ""
        /\ i # j => results[i].id # results[j].id

\* C11 (as claimed): once analyze_results has returned with a configured
\* scoring service, every result has a relevance_score, and it is a number
\* from 0.0 to 1.0, whatever the service answered for the result.
C11_ScoreInUnitRange ==
    Enriched =>
        \A p \in DOMAIN analyzed_results :
            /\ "relevance_score" \in DOMAIN analyzed_results[p]
            /\ analyzed_results[p].relevance_score.t = "num"
            /\ analyzed_results[p].relevance_score.v >= 0
            /\ analyzed_results[p].relevance_score.v <= 10

\* C12 (as claimed): the list the arXiv adapter or the Crossref adapter
\* returns is never longer than min(max_results, 100), whatever the
\* response holds.
C12_CeilingRespected ==
    \A k \in DOMAIN returned :
        request.sources[k] \in {"arxiv", "crossref"} =>
            Len(returned[k]) <= Min(request.max_results, ApiLimit)

\* C13: enhance_search_query never raises, and the query execute_search
\* receives is the original one when no model is configured, when the
\* service call fails, and when the trimmed answer is shorter than half
\* the original query.
C13_EnhanceFallsBack ==
    pc # "idle" =>
        /\ enhancement.exc = ""
        /\ (\/ ~request.use_ai_enhancement
            \/ ~model
            \/ enhancement.kind = "error"
            \/ 2 * Len(Strip(enhancement.text)) < Len(request.query))
           => query = request.query

\* the service answered " t " to the query "ttt": one character after
\* trimming, less than 1.5, and the search runs with "ttt"
C13_Witness ==
    /\ pc # "idle"
    /\ model
    /\ request.use_ai_enhancement
    /\ request.query = <<"t", "t", "t">>
    /\ enhancement.kind = "text"
    /\ enhancement.text = <<" ", "t", " ">>
    /\ query = request.query

RECURSIVE Flatten(_)
Flatten(lists) == IF lists = <<>> THEN <<>> ELSE Head(lists) \o Flatten(Tail(lists))

\* C14: the list handed to analyze_results is the lists the adapters
\* returned, one after the other in the order of request.sources, each in
\* the order its adapter returned it.
C14_ConcatInRequestOrder ==
    /\ \A k \in DOMAIN returned : \A i \in DOMAIN returned[k] :
          returned[k][i].source = request.sources[k]
    /\ Merged => /\ Len(returned) = Len(request.sources)
                 /\ results = Flatten(returned)

\* Crossref was asked first and returned two records, arXiv second and
\* returned one: the list handed on is Crossref's two, then arXiv's
C14_Witness ==
    /\ pc = "analyze"
    /\ request.sources = <<"crossref", "arxiv">>
    /\ Len(returned[1]) = 2
    /\ Len(returned[2]) = 1
    /\ returned[1][1] # returned[1][2]
    /\ results = <<returned[1][1], returned[1][2], returned[2][1]>>

\* the lists of the known sources among the first n sources, one after
\* the other
RECURSIVE KnownResults(_)
KnownResults(n) ==
    IF n = 0 THEN <<>>
    ELSE KnownResults(n - 1) \o
         (IF request.sources[n] \in KnownSources THEN returned[n] ELSE <<>>)

\* C15: a source name that is none of the five contributes the empty list
\* and raises nothing; the loop goes on, the merged list is what the known
\* sources of the request returned, and a request that names no known
\* source ends completed with no results.
C15_UnknownSourceIgnored ==
    /\ \A k \in DOMAIN returned :
          request.sources[k] \notin KnownSources => returned[k] = <<>>
    /\ last_fetch # NoFetch /\ last_fetch.source \notin KnownSources =>
          /\ last_fetch.exc = ""
          /\ raised = ""
          /\ pc \in {"search", "analyze"}
    /\ results = KnownResults(Len(returned))
    /\ (/\ pc = "done"
        /\ db
        /\ ~store_raised
        /\ \A k \in DOMAIN request.sources : request.sources[k] \notin KnownSources)
       => /\ search_doc.status = "completed"
          /\ search_doc.results_count = 0

\* arXiv returned two records, the unknown source "patents" none, and the
\* search ended completed with the two
C15_Witness ==
    /\ pc = "done"
    /\ request.sources = <<"arxiv", "patents">>
    /\ Len(returned[1]) = 2
    /\ returned[2] = <<>>
    /\ results = returned[1]
    /\ search_doc.status = "completed"
    /\ search_doc.results_count = 2

\* C16 (as claimed): when the request gives date_from and date_to, no
\* record an adapter returns, arXiv and Crossref included, has a year
\* outside the range.
C16_EveryAdapterFiltersDates ==
    request.date_from # 0 /\ request.date_to # 0 =>
        \A k \in DOMAIN returned : \A i \in DOMAIN returned[k] :
            returned[k][i].date # 0 =>
                /\ returned[k][i].date >= request.date_from
                /\ returned[k][i].date <= request.date_to

ScrapeSources == {"google_scholar", "researchgate", "scopus"}

\* the year is below the year of date_from or above the year of date_to
OutsideRange(year) ==
    \/ request.date_from # 0 /\ year < request.date_from
    \/ request.date_to # 0 /\ year > request.date_to

\* C17: from Google Scholar, ResearchGate and Scopus, no record whose
\* extracted year is below the year of date_from or above the year of
\* date_to is returned, and every record of the page that was processed
\* without error and has a year inside the range is returned (max_results
\* is above the number of records on the page).
C17_ScrapedYearFilter ==
    last_fetch.source \in ScrapeSources /\ last_fetch.kind = "ok" =>
        LET got == returned[Len(returned)]
            items == last_fetch.items
        IN  /\ \A i \in DOMAIN got :
                  got[i].date # 0 => ~OutsideRange(got[i].date)
            /\ \A y \in DatedYears \ {0} :
                  ~OutsideRange(y) =>
                      Cardinality({i \in DOMAIN got : got[i].date = y})
                      = Cardinality({j \in DOMAIN items :
                                        items[j].year = y /\ ~items[j].bad})

\* the range is 2022 to 2022 and the ResearchGate page holds a record of
\* 2021 and one of 2022: only the one of 2022 is returned
C17_Witness ==
    /\ last_fetch.source = "researchgate"
    /\ last_fetch.kind = "ok"
    /\ request.date_from = 2022
    /\ request.date_to = 2022
    /\ Len(last_fetch.items) = 2
    /\ last_fetch.items[1].year = 2021
    /\ ~last_fetch.items[1].bad
    /\ last_fetch.items[2].year = 2022
    /\ ~last_fetch.items[2].bad
    /\ Len(returned[Len(returned)]) = 1
    /\ returned[Len(returned)][1].date = 2022

\* C18: without a configured model, analyze_results returns the list it
\* was given, same results in the same order, with no relevance_score and
\* no ai_analysis added to any, and makes no scoring call and no delay.
C18_PassthroughWithoutModel ==
    ~model =>
        /\ scored = <<>>
        /\ timeline = <<>>
        /\ sort_order = <<>>
        /\ raised # "TypeError"
        /\ pc = "save" =>
              /\ analyzed_results = results
              /\ \A p \in DOMAIN analyzed_results :
                    /\ "relevance_score" \notin DOMAIN analyzed_results[p]
                    /\ "ai_analysis" \notin DOMAIN analyzed_results[p]

\* no model, two different results went in and came back as they were
C18_Witness ==
    /\ ~model
    /\ pc = "save"
    /\ Len(results) = 2
    /\ results[1] # results[2]
    /\ analyzed_results = results
    /\ timeline = <<>>

\* C19 (as claimed): every scoring call but the first comes right after a
\* delay, whether the result before it was handled with or without an
\* error, and no delay follows the last scoring call.
C19_DelayBetweenCalls ==
    /\ \A j \in DOMAIN timeline :
          j > 1 /\ timeline[j] = "call" => timeline[j - 1] = "sleep"
    /\ timeline # <<>> => timeline[Len(timeline)] = "call"

\* every index of the list is in exactly one committed batch
CommittedOnce ==
    \A i \in 0..(Len(analyzed_results) - 1) :
        Cardinality({j \in DOMAIN commit_log : i \in commit_log[j]}) = 1

\* C20 (as claimed): no committed batch holds more than 500 writes, none
\* is empty, and whenever save_search_results has returned without error
\* every result of the list has been committed exactly once.
C20_BatchedAll ==
    /\ \A j \in DOMAIN commit_log :
          Cardinality(commit_log[j]) \in 1..BatchLimit
    /\ pc = "update" => CommittedOnce

\* C20 (amended): the batch never holds more than 500 writes and no
\* committed batch is empty; with a configured store, when
\* save_search_results returns without error every result of the list
\* has been committed exactly once, in one commit per started group of
\* 500, and the documents stored are those of the results; without a
\* configured store it returns without error and commits nothing.
C20_BatchedAllWithStore ==
    /\ Cardinality(batch) <= BatchLimit
    /\ \A j \in DOMAIN commit_log :
          /\ Cardinality(commit_log[j]) \in 1..BatchLimit
          /\ commit_log[j] \subseteq 0..(Len(analyzed_results) - 1)
    /\ pc = "update" /\ db =>
          /\ CommittedOnce
          /\ commit_log = CommitLog(Len(analyzed_results), 0)
          /\ DOMAIN result_docs
                = {analyzed_results[i].id : i \in DOMAIN analyzed_results}
    /\ ~db => commit_log = <<>> /\ result_docs = <<>>

\* 1001 results were saved in three commits of 500, 500 and 1 writes
C20_Witness ==
    /\ pc = "update"
    /\ db
    /\ Len(analyzed_results) = 1001
    /\ Len(commit_log) = 3
    /\ Cardinality(commit_log[1]) = 500
    /\ Cardinality(commit_log[2]) = 500
    /\ commit_log[3] = {1000}

\* C21 (as claimed): save_search_results leaves every result it is handed
\* as it was: no step of the save changes a field of a result or adds one.
C21_SaveLeavesResults ==
    [][pc = "save" => analyzed_results' = analyzed_results]_vars

\* C22: when save_search_metadata raises, start_search still schedules
\* execute_search once for the new search id and answers with that id and
\* status processing; no request schedules more than one run.
C22_MetadataFailureNotFatal ==
    /\ Len(scheduled) <= 1
    /\ pc = "idle" <=> response = NoResponse
    /\ pc # "idle" /\ metadata_raised =>
          /\ scheduled = <<SearchId>>
          /\ response = [code |-> 200, search_id |-> SearchId,
                         status |-> "processing"]
          /\ search_doc = NoDoc

\* the metadata save raised, the run was scheduled and has gone through
\* to its call of update_search_status("completed", 2)
C22_Witness ==
    /\ metadata_raised
    /\ pc = "done"
    /\ scheduled = <<SearchId>>
    /\ response.search_id = SearchId
    /\ terminal_calls = <<"completed">>
    /\ Len(analyzed_results) = 2

\* the items of a response whose processing does not raise, in order
GoodItems(items) == SelectSeq(items, LAMBDA item : ~item.bad)

\* C23: when processing one item of a response raises, the adapter skips
\* that item only: the list returned holds one record for every other item
\* of the response, in the order of the response (for the scrape-based
\* adapters: of a page of at most max_results items, no date range given).
C23_BadItemSkippedOnly ==
    /\ last_fetch.kind = "ok"
    /\ last_fetch.source \in KnownSources
    /\ \/ last_fetch.source \in {"arxiv", "crossref"}
       \/ Len(last_fetch.items) <= request.max_results
    /\ request.date_from = 0
    /\ request.date_to = 0
    => LET got == returned[Len(returned)]
           good == GoodItems(last_fetch.items)
       IN  /\ Len(got) = Len(good)
           /\ \A i \in DOMAIN got :
                 /\ got[i].date = good[i].year
                 /\ got[i].source = last_fetch.source
                 /\ last_fetch.source \in {"arxiv", "crossref"} /\ good[i].nid # ""
                    => got[i].id = good[i].nid

\* the first entry of the arXiv feed failed to parse, the second (with an
\* identifier of its own) is returned
C23_Witness ==
    /\ last_fetch.source = "arxiv"
    /\ last_fetch.kind = "ok"
    /\ Len(last_fetch.items) = 2
    /\ last_fetch.items[1].bad
    /\ ~last_fetch.items[2].bad
    /\ last_fetch.items[2].nid = "10.1/x"
    /\ Len(returned[Len(returned)]) = 1
    /\ returned[Len(returned)][1].id = "10.1/x"

\* C24 (as claimed): a search that is inside a call of the enhancer, of
\* the scorer or of the inter-call delay is suspended: it does not hold
\* the event loop, so another search or request can take steps.
C24_AiCallsSuspend ==
    \A s \in Tasks :
        task[s].pc \in {"enhancing", "scoring", "sleeping"} => running # s

\* C25 (as claimed): within one search the adapters are invoked in
\* parallel, one invocation per requested source: while the search waits
\* for a fetch, every one of its sources has been invoked, so the fetch of
\* a later source is in flight before that of an earlier one returns.
C25_AdaptersInParallel ==
    \A s \in Tasks :
        task[s].pc = "fetching" =>
            \A k \in DOMAIN inputs[s].sources :
                k < task[s].src_i \/ <<s, k>> \in flights

\* what execute_search leaves in the store for the search s when it runs
\* alone against the responses and answers of inputs[s]: every adapter in
\* turn, analyze_results, save_search_results, update_search_status
AloneOutcome(s) ==
    LET inp == inputs[s]
        fetched == [k \in DOMAIN inp.sources |->
                       search(inp.sources[k], MaxResultsLe, 0, 0,
                              inp.responses[k]).val]
        res == Flatten(fetched)
        r == analyze_results(res, [i \in DOMAIN res |-> inp.outs[i]])
        t == IF ~model \/ res = <<>>
             THEN [pc |-> "save", analyzed |-> res, raised |-> ""]
             ELSE IF r.exc # ""
                  THEN [pc |-> "except", analyzed |-> <<>>, raised |-> r.exc]
                  ELSE [pc |-> "save", analyzed |-> r.val.list, raised |-> ""]
        doc == IF db THEN save_search_metadata(NoDoc, search_metadata, FALSE).doc
               ELSE NoDoc
    IN  Recorded(s, s, t, inp.save_fails, doc, <<>>)

\* C26: concurrent searches do not interfere.  However the steps of two
\* searches with different ids interleave, once a search has ended the
\* result documents and the status record stored under its id are those
\* it leaves when it runs alone against the same responses of the sources
\* and answers of the scorer.
C26_NoInterference ==
    \A s \in Tasks :
        task[s].pc = "done" =>
            /\ store.doc[s] = AloneOutcome(s).doc
            /\ store.docs[s] = AloneOutcome(s).docs
            /\ task[s].raised = AloneOutcome(s).raised

\* both searches have ended, one completed and one failed, after the fetch
\* of one was started while a fetch of the other was in flight
C26_Witness ==
    /\ \A s \in Tasks : task[s].pc = "done"
    /\ task["s1"].overlapped \/ task["s2"].overlapped
    /\ store.doc["s1"] # NoDoc
    /\ store.doc["s1"].status = "completed"
    /\ store.doc["s1"].results_count = 2
    /\ store.docs["s1"] # <<>>
    /\ store.doc["s2"] # NoDoc
    /\ store.doc["s2"].status = "failed"
    /\ store.docs["s2"] = <<>>

\* C27 (as claimed): every started search eventually has a terminal
\* status in its persisted record, under fair scheduling, also when the
\* metadata write or a status update fails: the record does not stay at
\* processing (or missing) forever.
C27_EventuallyTerminal ==
    (pc # "idle") ~> (search_doc.status \in Terminal)

\* C28 (as claimed): a record with status failed and results_count 0 means
\* that no result document is stored for the search: a save that raises
\* part-way, after at least one batch of 500 was committed, leaves nothing
\* behind.
C28_FailedMeansNothingStored ==
    (search_doc.status = "failed" /\ search_doc.results_count = 0) =>
        result_docs = <<>>

\* C29 (as claimed): with a store available, a record with status
\* completed and results_count n means that exactly n result documents are
\* stored for the search: none is lost by two results being written under
\* the same document id.
C29_CountMatchesStored ==
    (db /\ search_doc.status = "completed") =>
        Cardinality(DOMAIN result_docs) = search_doc.results_count

\* C30 (as claimed): a status query for a search id that has no stored
\* record ends with the not-found outcome, HTTP 404, not with the generic
\* server error, HTTP 500.
C30_MissingRecordIs404 ==
    [][(get_search_status_route /\ search_doc = NoDoc) =>
          status_reply'.code = 404]_vars

====
